---- MODULE Spec2Model ----
(***************************************************************************)
(* Clario front-end: the token store and request helpers of                *)
(* src/utils/auth.js and the flows that use them (OAuth callback, test     *)
(* login, guarded routes, Profile and ScheduleMaker requests).             *)
(*                                                                         *)
(* JavaScript values are modelled as strings: NULL is JS null, UNDEF is JS *)
(* undefined, "" is the empty string.  No token is ever spelled "null" or  *)
(* "undefined", so template literals such as `Bearer ${x}` can be modelled *)
(* by string concatenation, which is what JS does with them.               *)
(***************************************************************************)
EXTENDS Integers, Sequences, FiniteSets, TLC

VARIABLES
  localStorage,  \* browser localStorage: key -> value or NULL (no such key)
  storageOk,     \* FALSE: every access to localStorage throws
  wrapPc,        \* which auth.js request helper is awaiting its fetch
  route,         \* the location the router shows
  timers,        \* navigations scheduled with setTimeout, not yet fired
  pending,       \* fetches in flight, by the continuation awaiting them
  cbStatus,      \* OAuthCallback: status state
  cbError,       \* OAuthCallback: error state
  loginStatus,   \* Login: status state
  profLoading,   \* Profile: isLoading state
  profError,     \* Profile: error state
  profUser,      \* Profile: user state
  savedSchedules,\* Profile: savedSchedules state (ids of the schedules)
  smLoading,     \* ScheduleMaker: isLoading state
  schedule,      \* ScheduleMaker: schedule state
  resources,     \* ScheduleMaker: resources state
  books,         \* BookRecommendations: books state (ids of sampleBooks)
  selectedFormat,\* BookRecommendations: selectedFormat state
  position,      \* BookCarousel: position state
  ev             \* the step taken last: its inputs, requests and outcome

pageVars == <<profLoading, profError, profUser, savedSchedules,
              smLoading, schedule>>

widgetVars == <<resources, books, selectedFormat, position>>

appVars == <<route, timers, pending, cbStatus, cbError, loginStatus, pageVars,
             widgetVars>>

vars == <<localStorage, storageOk, wrapPc, appVars, ev>>

----------------------------------------------------------------------------
(* JavaScript values *)

NULL  == "null"
UNDEF == "undefined"

Tokens == {"tokA", "tokB"}

\* what callers may pass to setToken: a token, the empty string, null
TokenArgs == Tokens \cup {"", NULL}

\* JS truthiness of a string-or-null value
Truthy(v) == v \notin {NULL, UNDEF, ""}

----------------------------------------------------------------------------
(* localStorage *)

TOKEN_KEY == "access_token"

\* a second key, never used by the code: shows writes go to TOKEN_KEY only
Keys == {TOKEN_KEY, "theme"}

EmptyStorage == [k \in Keys |-> NULL]

\* localStorage.setItem(k, v) / removeItem(k) / getItem(k) on a working store
setItem(ls, k, v) == [ls EXCEPT ![k] = v]
removeItem(ls, k) == [ls EXCEPT ![k] = NULL]
getItem(ls, k)    == ls[k]

----------------------------------------------------------------------------
(* utils/auth.js: token store.  `ok` is whether storage access works; when *)
(* it throws, the try/catch swallows the exception.                        *)

\* how a block of code completes: normally, or by a thrown exception
Completed == [kind |-> "none", msg |-> UNDEF]

STORAGE_ERROR == "SecurityError"

\* what touching localStorage does
StorageAccess(ok) ==
  IF ok THEN Completed ELSE [kind |-> "throw", msg |-> STORAGE_ERROR]

Swallow_Rethrow(thrown) == thrown

\* try { ... } catch { }: how the function completes when its try block
\* completed as `thrown`
Swallow(thrown) == Completed

\* how setToken / getToken / removeToken / isAuthenticated complete
SetTokenCompletes(ok, token) ==
  Swallow(IF Truthy(token) THEN StorageAccess(ok) ELSE Completed)

GetTokenCompletes(ok) == Swallow(StorageAccess(ok))

RemoveTokenCompletes(ok) == Swallow(StorageAccess(ok))

IsAuthenticatedCompletes(ok) == GetTokenCompletes(ok)

SetToken_SecondKey(ls, ok, token) ==
  IF ok /\ Truthy(token)
    THEN IF getItem(ls, TOKEN_KEY) = NULL
           THEN setItem(ls, TOKEN_KEY, token)
           ELSE setItem(ls, "theme", token)
    ELSE ls

SetToken_WritesEmpty(ls, ok, token) ==
  IF ok THEN setItem(ls, TOKEN_KEY, token) ELSE ls

SetToken_Torn(ls, ok, token) ==
  IF ok /\ Truthy(token)
    THEN setItem(ls, TOKEN_KEY,
                 IF getItem(ls, TOKEN_KEY) \in {NULL, token} THEN token ELSE "tok")
    ELSE ls

SetToken_NoOverwrite(ls, ok, token) ==
  IF ok /\ Truthy(token) /\ getItem(ls, TOKEN_KEY) = NULL
    THEN setItem(ls, TOKEN_KEY, token) ELSE ls

\* setToken(token): the storage after the call
SetToken(ls, ok, token) ==
  IF ok /\ Truthy(token) THEN setItem(ls, TOKEN_KEY, token) ELSE ls

\* getToken(): the value returned
GetToken(ls, ok) == IF ok THEN getItem(ls, TOKEN_KEY) ELSE NULL

RemoveToken_Noop(ls, ok) == ls

\* removeToken(): the storage after the call
RemoveToken(ls, ok) == IF ok THEN removeItem(ls, TOKEN_KEY) ELSE ls

IsAuthenticated_NotCalled(ls, ok) == TRUE

\* isAuthenticated(): !!getToken()
IsAuthenticated(ls, ok) == Truthy(GetToken(ls, ok))

----------------------------------------------------------------------------
(* HTTP requests and responses *)

BASE == "http://localhost:8000/api/v1"

\* a header object has the two keys the code ever sets; UNDEF = key missing
NoHeaders == [ct |-> UNDEF, auth |-> UNDEF]

\* { ...a, ...b }: keys of b override keys of a
Spread(a, b) ==
  [ct   |-> IF b.ct # UNDEF THEN b.ct ELSE a.ct,
   auth |-> IF b.auth # UNDEF THEN b.auth ELSE a.auth]

JSON_CT == "application/json"

Bearer(token) == "Bearer " \o token

\* options objects callers pass to the helpers: method and headers
CallerHeaders ==
  { NoHeaders,
    [ct |-> UNDEF, auth |-> "Bearer other"],
    [ct |-> "text/plain", auth |-> UNDEF],
    [ct |-> "text/plain", auth |-> "Basic xyz"] }

Options == [method : {"GET", "POST"}, headers : CallerHeaders]

NoOptions == [method |-> "GET", headers |-> NoHeaders]

Request(url, method, headers) ==
  [url |-> url, method |-> method, ct |-> headers.ct, auth |-> headers.auth]

\* the `data` member of a JSON payload, as far as the pages read it: absent,
\* or a list of items (schedules, schedule_items, goals) given by their ids,
\* with or without the video_info member generate-youtube answers with
NoData == [present |-> FALSE, ids |-> << >>, info |-> FALSE]

Data(ids, info) == [present |-> TRUE, ids |-> ids, info |-> info]

\* response bodies: text that does not parse as JSON, the JSON literal null,
\* or an object with (some of) the members status, message, data and
\* data.access_token
NoBody == [parses |-> FALSE, isObj |-> FALSE, status |-> UNDEF,
           message |-> UNDEF, token |-> UNDEF, data |-> NoData]

JsonNull == [NoBody EXCEPT !.parses = TRUE]

JsonObject(status, message, token) ==
  [parses |-> TRUE, isObj |-> TRUE, status |-> status,
   message |-> message, token |-> token, data |-> NoData]

\* what the auth endpoints may answer
JsonObjects ==
  { JsonObject("success", UNDEF, "tokA"),
    JsonObject("success", UNDEF, "tokB"),
    JsonObject("success", UNDEF, ""),
    JsonObject("success", UNDEF, UNDEF),
    JsonObject("error", "bad request", UNDEF),
    JsonObject("error", "", UNDEF),
    JsonObject("error", UNDEF, UNDEF),
    JsonObject("error", "bad request", "tokA") }

Bodies == {NoBody, JsonNull} \cup JsonObjects

Statuses == {200, 401, 500}

\* `${response.status}`
StatusText(s) ==
  CASE s = 200 -> "200" [] s = 401 -> "401" [] s = 500 -> "500" [] OTHER -> "0"

\* settled: the fetch promise resolved with a response; otherwise it rejected
Responses == [settled : {TRUE}, status : Statuses, body : Bodies]

NetworkFailure == [settled |-> FALSE, status |-> 0, body |-> NoBody]

NoResponse == [settled |-> FALSE, status |-> -1, body |-> NoBody]

FetchOutcomes == Responses \cup {NetworkFailure}

\* what the data endpoints may answer
DataBodies ==
  {NoBody, JsonNull} \cup
  { [JsonObject("success", UNDEF, UNDEF) EXCEPT !.data = d] :
      d \in { NoData, Data(<< >>, TRUE), Data(<<1, 2>>, TRUE),
              Data(<<2>>, FALSE) } }

DataOutcomes ==
  [settled : {TRUE}, status : {200, 401}, body : DataBodies]
    \cup {NetworkFailure}

\* response.ok
Ok(resp) == resp.status >= 200 /\ resp.status <= 299

----------------------------------------------------------------------------
(* results of a call: returned a payload, or threw an Error with a message *)

NoOutcome      == [kind |-> "none",   msg |-> UNDEF, payload |-> NoBody]
Returns(body)  == [kind |-> "return", msg |-> UNDEF, payload |-> body]
Throws(msg)    == [kind |-> "throw",  msg |-> msg,   payload |-> NoBody]

FETCH_FAILED == "Failed to fetch"          \* TypeError of a rejected fetch
TYPE_ERROR   == "TypeError: null"          \* property access on null
SYNTAX_ERROR == "SyntaxError: JSON"        \* response.json() on bad JSON

HandleApiResponse_TrustBody(resp) ==
  IF resp.body.parses THEN Returns(resp.body) ELSE Throws(SYNTAX_ERROR)

\* handleApiResponse(response)
HandleApiResponse(resp) ==
  IF ~Ok(resp)
    THEN LET error == IF resp.body.parses
                        THEN resp.body
                        ELSE [NoBody EXCEPT !.message = "Network error",
                                            !.parses = TRUE, !.isObj = TRUE]
         IN  IF ~error.isObj
               THEN Throws(TYPE_ERROR)
               ELSE IF Truthy(error.message)
                      THEN Throws(error.message)
                      ELSE Throws("HTTP " \o StatusText(resp.status))
    ELSE IF resp.body.parses THEN Returns(resp.body) ELSE Throws(SYNTAX_ERROR)

ApiHeaders_CallerWins(ls, ok, options) ==
  LET token == GetToken(ls, ok) IN
  Spread(IF Truthy(token)
           THEN [ct |-> JSON_CT, auth |-> Bearer(token)]
           ELSE [ct |-> JSON_CT, auth |-> UNDEF],
         options.headers)

\* apiRequest: the headers object it builds
ApiHeaders(ls, ok, options) ==
  LET token == GetToken(ls, ok) IN
  Spread(Spread([ct |-> JSON_CT, auth |-> UNDEF], options.headers),
         IF Truthy(token) THEN [ct |-> UNDEF, auth |-> Bearer(token)]
                          ELSE NoHeaders)

\* apiRequest: the request handed to fetch ({...options, headers})
ApiRequest(ls, ok, url, options) ==
  Request(url, options.method, ApiHeaders(ls, ok, options))

----------------------------------------------------------------------------
(* the record of the step taken last *)

NoEvent ==
  [op     |-> "init",        \* the operation or handler that ran
   token  |-> UNDEF,         \* a token argument
   code   |-> UNDEF,         \* callback query: code
   error  |-> UNDEF,         \* callback query: error
   opts   |-> NoOptions,     \* options argument of a request helper
   resp   |-> NoResponse,    \* the fetch outcome the step consumed
   reqs   |-> << >>,         \* the requests the step handed to fetch
   out    |-> NoOutcome,     \* what the call returned or threw
   ret    |-> UNDEF,         \* the plain value a token-store call returned
   last   |-> UNDEF,         \* token-store calls: the argument of the latest
                             \* setToken with a non-empty argument since the
                             \* latest removeToken, NULL if there is none
   sched  |-> {},            \* the navigations the step scheduled
   index  |-> -1,            \* an index or id argument
   value  |-> UNDEF,         \* a value argument
   old    |-> << >>,         \* the list the step works on, before the step
   oldSchedule |-> NoData,   \* ScheduleMaker's schedule before the step
   visit  |-> UNDEF,         \* the route the step asked the router for
   render |-> UNDEF,         \* the page component the step rendered
   before |-> EmptyStorage]  \* localStorage before the step

Event(op) == [NoEvent EXCEPT !.op = op, !.before = localStorage]

\* a step of a caller of the auth.js exports
Call(op) == [Event(op) EXCEPT !.last = ev.last]

\* a completion as the outcome of a call
Completion(c) == IF c.kind = "throw" THEN Throws(c.msg) ELSE NoOutcome

\* `${b}` of a boolean
BoolText(b) == IF b THEN "true" ELSE "false"

----------------------------------------------------------------------------
(* callers of the auth.js exports *)

WrapperUrls == {BASE \o "/users/profile", BASE \o "/ml/recommend"}

SetTokenCall ==
  \E t \in TokenArgs :
    /\ localStorage' = SetToken(localStorage, storageOk, t)
    /\ ev' = [Call("setToken") EXCEPT
                !.token = t,
                !.out = Completion(SetTokenCompletes(storageOk, t)),
                !.last = IF Truthy(t) THEN t ELSE ev.last]
    /\ UNCHANGED <<storageOk, wrapPc, appVars>>

GetTokenCall ==
  /\ ev' = [Call("getToken") EXCEPT
              !.out = Completion(GetTokenCompletes(storageOk)),
              !.ret = GetToken(localStorage, storageOk)]
  /\ UNCHANGED <<localStorage, storageOk, wrapPc, appVars>>

IsAuthenticatedCall_Clears ==
  /\ ev' = [Call("isAuthenticated") EXCEPT
              !.out = Completion(IsAuthenticatedCompletes(storageOk)),
              !.ret = BoolText(IsAuthenticated(localStorage, storageOk))]
  /\ localStorage' = RemoveToken(localStorage, storageOk)
  /\ UNCHANGED <<storageOk, wrapPc, appVars>>

IsAuthenticatedCall ==
  /\ ev' = [Call("isAuthenticated") EXCEPT
              !.out = Completion(IsAuthenticatedCompletes(storageOk)),
              !.ret = BoolText(IsAuthenticated(localStorage, storageOk))]
  /\ UNCHANGED <<localStorage, storageOk, wrapPc, appVars>>

RemoveTokenCall ==
  /\ localStorage' = RemoveToken(localStorage, storageOk)
  /\ ev' = [Call("removeToken") EXCEPT
              !.out = Completion(RemoveTokenCompletes(storageOk)),
              !.last = NULL]
  /\ UNCHANGED <<storageOk, wrapPc, appVars>>

\* apiRequest(url, options) up to its await of fetch
ApiRequestCall ==
  \E url \in WrapperUrls, o \in Options :
    /\ wrapPc = "idle"
    /\ wrapPc' = "apiRequest"
    /\ ev' = [Call("apiRequest") EXCEPT
                !.opts = o,
                !.reqs = << ApiRequest(localStorage, storageOk, url, o) >>]
    /\ UNCHANGED <<localStorage, storageOk, appVars>>

AuthenticatedRequestStart_NoCheck(url, o) ==
  /\ wrapPc' = "authenticatedRequest"
  /\ ev' = [Call("authenticatedRequest") EXCEPT
              !.opts = o,
              !.reqs = << ApiRequest(localStorage, storageOk, url, o) >>]

\* authenticatedRequest(url, options) up to its first await
AuthenticatedRequestStart(url, o) ==
  IF ~Truthy(GetToken(localStorage, storageOk))
    THEN /\ wrapPc' = "idle"
         /\ ev' = [Call("authenticatedRequest") EXCEPT
                     !.opts = o, !.out = Throws("Not authenticated")]
    ELSE /\ wrapPc' = "authenticatedRequest"
              /\ ev' = [Call("authenticatedRequest") EXCEPT
                     !.opts = o,
                     !.reqs = << ApiRequest(localStorage, storageOk, url, o) >>]

AuthenticatedRequestCall ==
  \E url \in WrapperUrls, o \in Options :
    /\ wrapPc = "idle"
    /\ AuthenticatedRequestStart(url, o)
    /\ UNCHANGED <<localStorage, storageOk, appVars>>

WrapperSettle_Retry ==
  \E r \in FetchOutcomes :
    LET again == wrapPc = "authenticatedRequest" /\ ~(r.settled /\ Ok(r)) IN
    /\ wrapPc # "idle"
    /\ wrapPc' = IF again THEN wrapPc ELSE "idle"
    /\ ev' = [Call(wrapPc \o ":settled") EXCEPT
                !.resp = r,
                !.reqs = IF again
                           THEN << ApiRequest(localStorage, storageOk,
                                              BASE \o "/users/profile", NoOptions) >>
                           ELSE << >>,
                !.out = IF ~r.settled THEN Throws(FETCH_FAILED)
                        ELSE IF wrapPc = "apiRequest" THEN Returns(r.body)
                        ELSE HandleApiResponse(r)]
    /\ UNCHANGED <<localStorage, storageOk, appVars>>

\* the pending fetch of a helper settles; apiRequest returns the raw
\* response, authenticatedRequest passes it to handleApiResponse
WrapperSettle ==
  \E r \in FetchOutcomes :
    /\ wrapPc # "idle"
    /\ wrapPc' = "idle"
    /\ ev' = [Call(wrapPc \o ":settled") EXCEPT
                !.resp = r,
                !.out = IF ~r.settled THEN Throws(FETCH_FAILED)
                        ELSE IF wrapPc = "apiRequest" THEN Returns(r.body)
                        ELSE HandleApiResponse(r)]
    /\ UNCHANGED <<localStorage, storageOk, appVars>>

----------------------------------------------------------------------------
(* the application: router, timers, fetches in flight *)

\* locations: "/" stands for the unguarded pages /, /books and /about; the
\* others are /login, /auth/callback, /profile and /schedule

\* the routes App wraps in <ProtectedRoute>
Guarded == {"/profile", "/schedule"}

\* the backend page the "Continue with Google" button sends the browser to
GOOGLE_LOGIN_URL == BASE \o "/auth/google/login"

\* the page component <Routes> renders for a location; none while the
\* browser is at the backend
PageOf(r) ==
  CASE r = "/login"         -> "Login"
    [] r = GOOGLE_LOGIN_URL -> "none"
    [] r = "/auth/callback" -> "OAuthCallback"
    [] r = "/profile"       -> "Profile"
    [] r = "/schedule"      -> "ScheduleMaker"
    [] r = "/books"         -> "BookRecommendations"
    [] OTHER                -> "MainPage"

PROFILE_DELAY == 1500
LOGIN_DELAY   == 3000

Timer(to, delay, by) == [to |-> to, delay |-> delay, by |-> by]

\* continuations awaiting a fetch.  A continuation whose component was
\* unmounted by a navigation still runs: those that touch the token store or
\* schedule a navigation are kept as ".orphan" (their setState calls then
\* do nothing); the others have no effect left and are dropped.
AuthKinds    == {"exchange", "testLogin", "logout"}
ProfileKinds == {"profile", "schedules", "update", "delete:1", "delete:2",
                 "loadSettings", "saveSettings"}
MakerKinds   == {"youtube", "goals", "generate"}

Orphan(k) == k \o ".orphan"

Kinds == AuthKinds \cup {Orphan(k) : k \in AuthKinds}
           \cup ProfileKinds \cup MakerKinds

\* bound: fetches in flight at once that user actions may start
MaxInflight == 2

NonePending == [k \in Kinds |-> 0]

RECURSIVE SumOver(_, _)
SumOver(p, ks) ==
  IF ks = {} THEN 0
  ELSE LET k == CHOOSE x \in ks : TRUE IN p[k] + SumOver(p, ks \ {k})

\* the number of fetches in flight
Total(p) == SumOver(p, Kinds)

\* the component that awaits kind k
OwnerOf(k) ==
  CASE k = "exchange"                   -> "OAuthCallback"
    [] k = "testLogin"                  -> "Login"
    [] k \in ProfileKinds \cup {"logout"} -> "Profile"
    [] k \in MakerKinds                 -> "ScheduleMaker"
    [] OTHER                            -> "none"

\* leaving page component c: what is in flight afterwards
Unmount(p, c) ==
  [k \in Kinds |->
     IF OwnerOf(k) = c THEN 0
     ELSE IF \E a \in AuthKinds : k = Orphan(a) /\ OwnerOf(a) = c
       THEN p[k] + p[CHOOSE a \in AuthKinds : k = Orphan(a)]
     ELSE p[k]]

Add(p, k)  == [p EXCEPT ![k] = @ + 1]
Take(p, k) == [p EXCEPT ![k] = @ - 1]

\* initial state of the page components
CB_INITIAL == "Processing..."
NO_USER    == "null"

\* ScheduleMaker: useState([''])
INITIAL_RESOURCES == << "" >>

\* data/sampleBooks.js: the format of each of the eight books, by id
SampleBooks ==
  << "PDF", "eBook", "Physical", "PDF", "eBook", "Physical", "PDF", "eBook" >>

\* BookRecommendations: useState(sampleBooks)
ALL_BOOKS == << 1, 2, 3, 4, 5, 6, 7, 8 >>

\* <ProtectedRoute>: the location shown on a visit of r
ProtectedRoute(ls, ok, r) ==
  IF r \in Guarded /\ ~IsAuthenticated(ls, ok) THEN "/login" ELSE r

----------------------------------------------------------------------------
(* pages/Profile.jsx: requests *)

\* `Bearer ${localStorage.getItem('access_token')}`
ProfileAuth(ls) == Bearer(getItem(ls, TOKEN_KEY))

ProfileHeaders(ls) == [ct |-> JSON_CT, auth |-> ProfileAuth(ls)]

PROFILE_URL     == BASE \o "/users/profile"
SCHEDULES_URL   == BASE \o "/schedules/"
PREFERENCES_URL == BASE \o "/users/preferences"
LOGOUT_URL      == BASE \o "/auth/logout"

ScheduleIds == {1, 2}

IdText(id) == CASE id = 1 -> "1" [] id = 2 -> "2" [] OTHER -> "0"

PROFILE_LOAD_ERROR == "Failed to load profile data"

\* Profile's mount effect, line 360: does it go on to fetch?
ProfileMount(ls, ok) == IsAuthenticated(ls, ok)

\* the requests Profile's mount effect hands to fetch (fetchUserProfile and
\* fetchUserSchedules up to their awaits); a throwing localStorage.getItem
\* lands in their catch blocks before fetch is called
ProfileMountReqs(ls, ok) ==
  IF ProfileMount(ls, ok) /\ ok
    THEN << Request(PROFILE_URL, "GET", ProfileHeaders(ls)),
            Request(SCHEDULES_URL, "GET", ProfileHeaders(ls)) >>
    ELSE << >>

----------------------------------------------------------------------------
(* the router *)

\* The router shows `target`: by navigate(target) inside the single-page app
\* (everything in flight keeps running, timers `tm` stay), or by a fresh load
\* of the page (all script state is gone, storage stays).  The page component
\* of the location is rendered and its mount effect runs.
Show(e, target, fresh, tm) ==
  LET r      == ProtectedRoute(localStorage, storageOk, target)
      page   == PageOf(r)
      same   == ~fresh /\ page = PageOf(route)
      bounce == page = "Profile" /\ ~same
                  /\ ~ProfileMount(localStorage, storageOk)
      reload == fresh \/ bounce
      left   == IF reload THEN NonePending
                ELSE IF same THEN pending ELSE Unmount(pending, PageOf(route))
      reqs   == IF page = "Profile" /\ ~same
                  THEN ProfileMountReqs(localStorage, storageOk) ELSE << >>
  IN
  /\ route' = IF bounce THEN "/login" ELSE r
  /\ timers' = IF reload THEN {} ELSE tm
  /\ pending' = IF Len(reqs) = 2
                  THEN Add(Add(left, "profile"), "schedules") ELSE left
  /\ cbStatus' = IF same THEN cbStatus ELSE CB_INITIAL
  /\ cbError' = IF same THEN cbError ELSE ""
  /\ loginStatus' = IF same THEN loginStatus ELSE ""
  /\ profLoading' = IF same THEN profLoading
                    ELSE IF page = "Profile" /\ ~bounce /\ ~storageOk THEN FALSE
                    ELSE TRUE
  /\ profError' = IF same THEN profError
                  ELSE IF page = "Profile" /\ ~bounce /\ ~storageOk
                    THEN PROFILE_LOAD_ERROR
                  ELSE ""
  /\ profUser' = IF same THEN profUser ELSE NO_USER
  /\ savedSchedules' = IF same THEN savedSchedules ELSE << >>
  /\ smLoading' = IF same THEN smLoading ELSE FALSE
  /\ schedule' = IF same THEN schedule ELSE NoData
  /\ resources' = IF same THEN resources ELSE INITIAL_RESOURCES
  /\ books' = IF same THEN books ELSE ALL_BOOKS
  /\ selectedFormat' = IF same THEN selectedFormat ELSE "all"
  /\ position' = IF same THEN position ELSE 0
  /\ ev' = [e EXCEPT !.visit = target, !.render = page, !.reqs = e.reqs \o reqs]

\* Navbar buttons and the "Return to Login" button of a failed callback
Navigate ==
  \E r \in {"/", "/login", "/profile"} :
    /\ route # GOOGLE_LOGIN_URL
    /\ Show(Event("navigate"), r, FALSE, timers)
    /\ UNCHANGED <<localStorage, storageOk, wrapPc>>

\* a setTimeout(() => navigate(to), delay) callback runs
TimerFires ==
  \E t \in timers :
    /\ Show(Event("timer"), t.to, FALSE, timers \ {t})
    /\ UNCHANGED <<localStorage, storageOk, wrapPc>>

\* the browser loads a page of the app afresh (address bar, reload,
\* window.location.href = '/schedule')
PageLoad ==
  \E r \in {"/", "/login", "/profile", "/schedule"} :
    /\ Show(Event("load"), r, TRUE, {})
    /\ UNCHANGED <<localStorage, storageOk, wrapPc>>

----------------------------------------------------------------------------
(* pages/OAuthCallback.jsx *)

EXCHANGE_URL == BASE \o "/auth/google/callback?code="

NO_CODE  == "No authorization code received"
NO_TOKEN == "No access token received from server"

CB_WORKING == "Completing sign-in..."
CB_SUCCESS == "Sign-in successful! Redirecting..."
CB_FAILED  == "Sign-in failed"

CallbackParams_NoCodeCheck(code, error) ==
  IF Truthy(error) THEN Throws("OAuth error: " \o error) ELSE NoOutcome

CallbackParams_CodeFirst(code, error) ==
  IF Truthy(code) THEN NoOutcome
  ELSE IF Truthy(error) THEN Throws("OAuth error: " \o error)
  ELSE Throws(NO_CODE)

\* handleCallback, lines 16-26: what the query parameters make it throw
CallbackParams(code, error) ==
  IF Truthy(error) THEN Throws("OAuth error: " \o error)
  ELSE IF ~Truthy(code) THEN Throws(NO_CODE)
  ELSE NoOutcome

CallbackResult_NoStatusCheck(r) ==
  IF ~r.settled THEN Throws(FETCH_FAILED)
  ELSE LET result == HandleApiResponse(r) IN
       IF result.kind = "throw" THEN result
       ELSE IF ~result.payload.isObj THEN Throws(TYPE_ERROR)
       ELSE IF Truthy(result.payload.token)
         THEN result
         ELSE Throws(NO_TOKEN)

CallbackResult_NoTokenCheck(r) ==
  IF ~r.settled THEN Throws(FETCH_FAILED)
  ELSE LET result == HandleApiResponse(r) IN
       IF result.kind = "throw" THEN result
       ELSE IF ~result.payload.isObj THEN Throws(TYPE_ERROR)
       ELSE IF result.payload.status = "success"
         THEN result
         ELSE Throws(NO_TOKEN)

\* handleCallback, lines 34-42: Returns(payload) when the token of the
\* payload is to be stored, else the Error that reaches the catch block
CallbackResult(r) ==
  IF ~r.settled THEN Throws(FETCH_FAILED)
  ELSE LET result == HandleApiResponse(r) IN
       IF result.kind = "throw" THEN result
       ELSE IF ~result.payload.isObj THEN Throws(TYPE_ERROR)
       ELSE IF result.payload.status = "success" /\ Truthy(result.payload.token)
         THEN result
         ELSE Throws(NO_TOKEN)

CallbackTimer_AlwaysLogin(out) == Timer("/login", LOGIN_DELAY, "callback")

CallbackTimer_Swapped(out) ==
  IF out.kind = "throw" THEN Timer("/profile", PROFILE_DELAY, "callback")
                        ELSE Timer("/login", LOGIN_DELAY, "callback")

\* the navigation handleCallback schedules: line 39 or line 48
CallbackTimer(out) ==
  IF out.kind = "throw" THEN Timer("/login", LOGIN_DELAY, "callback")
                        ELSE Timer("/profile", PROFILE_DELAY, "callback")

\* the backend redirects the browser to /auth/callback?code=..&error=..:
\* a fresh page load, OAuthCallback mounts and its effect runs
\* handleCallback up to the await of the exchange fetch
CallbackLoad ==
  \E code \in {NULL, "", "XYZ"}, error \in {NULL, "", "access_denied"} :
    LET out == CallbackParams(code, error) IN
    /\ route' = "/auth/callback"
    /\ wrapPc' = "idle"
    /\ loginStatus' = ""
    /\ profLoading' = TRUE
    /\ profError' = ""
    /\ profUser' = NO_USER
    /\ savedSchedules' = << >>
    /\ smLoading' = FALSE
    /\ schedule' = NoData
    /\ resources' = INITIAL_RESOURCES
    /\ books' = ALL_BOOKS
    /\ selectedFormat' = "all"
    /\ position' = 0
    /\ IF out.kind = "throw"
         THEN /\ cbStatus' = CB_FAILED
              /\ cbError' = out.msg
              /\ timers' = {CallbackTimer(out)}
              /\ pending' = NonePending
              /\ ev' = [Event("callback") EXCEPT
                          !.code = code, !.error = error, !.out = out,
                          !.sched = {CallbackTimer(out)},
                          !.visit = "/auth/callback", !.render = "OAuthCallback"]
         ELSE /\ cbStatus' = CB_WORKING
              /\ cbError' = ""
              /\ timers' = {}
              /\ pending' = Add(NonePending, "exchange")
              /\ ev' = [Event("callback") EXCEPT
                          !.code = code, !.error = error,
                          !.visit = "/auth/callback", !.render = "OAuthCallback",
                          !.reqs = << Request(EXCHANGE_URL \o code, "GET",
                                              NoHeaders) >>]
    /\ UNCHANGED <<localStorage, storageOk>>

\* the exchange fetch settles and handleCallback runs to its end
CallbackSettle ==
  \E k \in {"exchange", Orphan("exchange")}, r \in FetchOutcomes :
    LET out == CallbackResult(r) IN
    /\ pending[k] > 0
    /\ pending' = Take(pending, k)
    /\ localStorage' = IF out.kind = "return"
                         THEN SetToken(localStorage, storageOk, out.payload.token)
                         ELSE localStorage
    /\ timers' = timers \cup {CallbackTimer(out)}
    /\ cbStatus' = IF k \notin AuthKinds THEN cbStatus
                   ELSE IF out.kind = "return" THEN CB_SUCCESS ELSE CB_FAILED
    /\ cbError' = IF k \in AuthKinds /\ out.kind = "throw" THEN out.msg ELSE cbError
    /\ ev' = [Event(k) EXCEPT !.resp = r, !.out = out,
                              !.sched = {CallbackTimer(out)}]
    /\ UNCHANGED <<widgetVars, storageOk, wrapPc, route, loginStatus, pageVars>>

----------------------------------------------------------------------------
(* pages/Login.jsx *)

TEST_LOGIN_URL == BASE \o "/auth/test-login"

LOGIN_TESTING == "Testing login..."
LOGIN_SUCCESS == "Test login successful! Redirecting..."
LOGIN_FAILED  == "Test login failed"

HandleGoogleLogin_Fetch ==
  /\ route = "/login"
  /\ Total(pending) < MaxInflight
  /\ pending' = Add(pending, "testLogin")
  /\ ev' = [Event("handleGoogleLogin") EXCEPT
              !.reqs = << Request(GOOGLE_LOGIN_URL, "GET", NoHeaders) >>]
  /\ UNCHANGED <<widgetVars, localStorage, storageOk, wrapPc, route, timers, loginStatus,
                 cbStatus, cbError, pageVars>>

\* handleGoogleLogin: window.location.href = <backend>/auth/google/login; the
\* browser leaves the app, nothing of its script state is kept
HandleGoogleLogin ==
  /\ route = "/login"
  /\ route' = GOOGLE_LOGIN_URL
  /\ timers' = {}
  /\ pending' = NonePending
  /\ cbStatus' = CB_INITIAL
  /\ cbError' = ""
  /\ loginStatus' = ""
  /\ profLoading' = TRUE
  /\ profError' = ""
  /\ profUser' = NO_USER
  /\ savedSchedules' = << >>
  /\ smLoading' = FALSE
  /\ schedule' = NoData
  /\ resources' = INITIAL_RESOURCES
  /\ books' = ALL_BOOKS
  /\ selectedFormat' = "all"
  /\ position' = 0
  /\ ev' = [Event("handleGoogleLogin") EXCEPT
              !.visit = GOOGLE_LOGIN_URL, !.render = "none"]
  /\ UNCHANGED <<localStorage, storageOk, wrapPc>>

\* handleTestLogin up to the await of its fetch
HandleTestLogin ==
  /\ route = "/login"
  /\ Total(pending) < MaxInflight
  /\ loginStatus' = LOGIN_TESTING
  /\ pending' = Add(pending, "testLogin")
  /\ ev' = [Event("handleTestLogin") EXCEPT
              !.reqs = << Request(TEST_LOGIN_URL, "GET", NoHeaders) >>]
  /\ UNCHANGED <<widgetVars, localStorage, storageOk, wrapPc, route, timers,
                 cbStatus, cbError, pageVars>>

TestLoginResult_TokenOnly(r) ==
  IF ~r.settled THEN Throws(FETCH_FAILED)
  ELSE IF ~r.body.parses THEN Throws(SYNTAX_ERROR)
  ELSE IF ~r.body.isObj THEN Throws(TYPE_ERROR)
  ELSE IF Truthy(r.body.token)
    THEN Returns(r.body)
    ELSE Throws(LOGIN_FAILED)

\* handleTestLogin, lines 21-29: Returns(payload) when the token of the
\* payload is to be stored, else the Error that reaches the catch block
TestLoginResult(r) ==
  IF ~r.settled THEN Throws(FETCH_FAILED)
  ELSE IF ~r.body.parses THEN Throws(SYNTAX_ERROR)
  ELSE IF ~r.body.isObj THEN Throws(TYPE_ERROR)
  ELSE IF r.body.status = "success" /\ Truthy(r.body.token)
    THEN Returns(r.body)
    ELSE Throws(LOGIN_FAILED)

\* the test-login fetch settles and handleTestLogin runs to its end
TestLoginSettle ==
  \E k \in {"testLogin", Orphan("testLogin")}, r \in FetchOutcomes :
    LET out == TestLoginResult(r) IN
    /\ pending[k] > 0
    /\ pending' = Take(pending, k)
    /\ localStorage' = IF out.kind = "return"
                         THEN SetToken(localStorage, storageOk, out.payload.token)
                         ELSE localStorage
    /\ timers' = IF out.kind = "return"
                   THEN timers \cup {Timer("/profile", PROFILE_DELAY, "login")}
                   ELSE timers
    /\ loginStatus' = IF k \notin AuthKinds THEN loginStatus
                      ELSE IF out.kind = "return" THEN LOGIN_SUCCESS
                      ELSE "Test login failed: " \o out.msg
    /\ ev' = [Event(k) EXCEPT
                !.resp = r, !.out = out,
                !.sched = IF out.kind = "return"
                            THEN {Timer("/profile", PROFILE_DELAY, "login")}
                            ELSE {}]
    /\ UNCHANGED <<widgetVars, storageOk, wrapPc, route, cbStatus, cbError, pageVars>>

----------------------------------------------------------------------------
(* pages/Profile.jsx: handlers *)

\* Profile renders its header, tabs and buttons (not the spinner, not the
\* "Error Loading Profile" card)
ProfileShown ==
  /\ route = "/profile"
  /\ ~profLoading
  /\ ~(Truthy(profError) /\ ~Truthy(profUser))

\* the body of a response fetched and parsed without an exception:
\* `if (!response.ok) throw ...; await response.json()`
Parsed(r) == r.settled /\ Ok(r) /\ r.body.parses

\* the "Try Again" button: fetchUserProfile up to its await
FetchUserProfile ==
  /\ route = "/profile"
  /\ ~profLoading /\ Truthy(profError) /\ ~Truthy(profUser)
  /\ Total(pending) < MaxInflight
  /\ IF storageOk
       THEN /\ profLoading' = TRUE
            /\ pending' = Add(pending, "profile")
            /\ ev' = [Event("fetchUserProfile") EXCEPT
                        !.reqs = << Request(PROFILE_URL, "GET",
                                            ProfileHeaders(localStorage)) >>]
            /\ UNCHANGED profError
       ELSE /\ profLoading' = FALSE
            /\ profError' = PROFILE_LOAD_ERROR
            /\ ev' = Event("fetchUserProfile")
            /\ UNCHANGED pending
  /\ UNCHANGED <<widgetVars, localStorage, storageOk, wrapPc, route, timers, cbStatus,
                 cbError, loginStatus, profUser, savedSchedules,
                 smLoading, schedule>>

\* fetchUserProfile from its await on: lines 272-286
FetchUserProfileSettle ==
  \E r \in DataOutcomes :
    /\ pending["profile"] > 0
    /\ pending' = Take(pending, "profile")
    /\ profLoading' = FALSE
    /\ IF Parsed(r) /\ r.body.isObj
         THEN /\ profUser' = IF r.body.data.present THEN "data" ELSE UNDEF
              /\ UNCHANGED profError
         ELSE /\ profError' = PROFILE_LOAD_ERROR
              /\ UNCHANGED profUser
    /\ ev' = [Event("profile") EXCEPT !.resp = r]
    /\ UNCHANGED <<widgetVars, localStorage, storageOk, wrapPc, route, timers, cbStatus,
                   cbError, loginStatus, savedSchedules, smLoading, schedule>>

\* fetchUserSchedules from its await on: lines 300-309
FetchUserSchedulesSettle ==
  \E r \in DataOutcomes :
    /\ pending["schedules"] > 0
    /\ pending' = Take(pending, "schedules")
    /\ savedSchedules' = IF Parsed(r) /\ r.body.isObj /\ r.body.data.present
                           THEN r.body.data.ids ELSE << >>
    /\ ev' = [Event("schedules") EXCEPT !.resp = r]
    /\ UNCHANGED <<widgetVars, localStorage, storageOk, wrapPc, route, timers, cbStatus,
                   cbError, loginStatus, profLoading, profError, profUser,
                   smLoading, schedule>>

\* a Profile handler that only issues a request: up to its await
ProfileRequest(kind, req) ==
  /\ ProfileShown
  /\ storageOk
  /\ Total(pending) < MaxInflight
  /\ pending[kind] = 0
  /\ pending' = Add(pending, kind)
  /\ ev' = [Event(kind \o ":start") EXCEPT !.reqs = << req >>]
  /\ UNCHANGED <<widgetVars, localStorage, storageOk, wrapPc, route, timers, cbStatus,
                 cbError, loginStatus, pageVars>>

\* updateUserProfile (ProfileTab's Save button), up to its await
UpdateUserProfile ==
  ProfileRequest("update",
                 Request(PROFILE_URL, "PUT", ProfileHeaders(localStorage)))

\* updateUserProfile from its await on: lines 324-333
UpdateUserProfileSettle ==
  \E r \in DataOutcomes :
    /\ pending["update"] > 0
    /\ pending' = Take(pending, "update")
    /\ profUser' = IF Parsed(r)
                     THEN (IF r.body.isObj THEN "payload" ELSE NO_USER)
                     ELSE profUser
    /\ ev' = [Event("update") EXCEPT
                !.resp = r,
                !.out = IF Parsed(r) THEN Returns(r.body)
                        ELSE Throws("Failed to update profile")]
    /\ UNCHANGED <<widgetVars, localStorage, storageOk, wrapPc, route, timers, cbStatus,
                   cbError, loginStatus, profLoading, profError,
                   savedSchedules, smLoading, schedule>>

DeleteKind(id) == "delete:" \o IdText(id)

InSeq(x, q) == \E i \in 1..Len(q) : q[i] = x

\* deleteSchedule(scheduleId) (SchedulesTab's delete button), up to its await
DeleteSchedule ==
  \E id \in ScheduleIds :
    /\ InSeq(id, savedSchedules)
    /\ ProfileRequest(DeleteKind(id),
                      Request(SCHEDULES_URL \o IdText(id), "DELETE",
                              [ct |-> UNDEF, auth |-> ProfileAuth(localStorage)]))

\* prev.filter(schedule => schedule.id !== scheduleId)
RECURSIVE WithoutId(_, _)
WithoutId(q, id) ==
  IF q = << >> THEN << >>
  ELSE IF Head(q) = id THEN WithoutId(Tail(q), id)
  ELSE << Head(q) >> \o WithoutId(Tail(q), id)

DeleteScheduleSettle_Optimistic ==
  \E id \in ScheduleIds, r \in DataOutcomes :
    /\ pending[DeleteKind(id)] > 0
    /\ pending' = Take(pending, DeleteKind(id))
    /\ savedSchedules' = WithoutId(savedSchedules, id)
    /\ ev' = [Event(DeleteKind(id)) EXCEPT
                !.resp = r, !.old = savedSchedules, !.index = id]
    /\ UNCHANGED <<widgetVars, localStorage, storageOk, wrapPc, route, timers,
                   cbStatus, cbError, loginStatus, profLoading, profError,
                   profUser, smLoading, schedule>>

\* deleteSchedule from its await on: lines 346-354
DeleteScheduleSettle ==
  \E id \in ScheduleIds, r \in DataOutcomes :
    /\ pending[DeleteKind(id)] > 0
    /\ pending' = Take(pending, DeleteKind(id))
    /\ savedSchedules' = IF r.settled /\ Ok(r) THEN WithoutId(savedSchedules, id)
                         ELSE savedSchedules
    /\ ev' = [Event(DeleteKind(id)) EXCEPT
                !.resp = r, !.old = savedSchedules, !.index = id]
    /\ UNCHANGED <<widgetVars, localStorage, storageOk, wrapPc, route, timers, cbStatus,
                   cbError, loginStatus, profLoading, profError, profUser,
                   smLoading, schedule>>

\* SettingsTab mounts: loadSettings up to its await
LoadSettings ==
  ProfileRequest("loadSettings",
                 Request(PREFERENCES_URL, "GET",
                         [ct |-> UNDEF, auth |-> ProfileAuth(localStorage)]))

\* saveSettings up to its await
SaveSettings ==
  ProfileRequest("saveSettings",
                 Request(PREFERENCES_URL, "PUT", ProfileHeaders(localStorage)))

\* loadSettings / saveSettings from their await on: they change the settings
\* form only, which is not part of this model
SettingsSettle ==
  \E k \in {"loadSettings", "saveSettings"}, r \in DataOutcomes :
    /\ pending[k] > 0
    /\ pending' = Take(pending, k)
    /\ ev' = [Event(k) EXCEPT !.resp = r]
    /\ UNCHANGED <<widgetVars, localStorage, storageOk, wrapPc, route, timers, cbStatus,
                   cbError, loginStatus, pageVars>>

LogoutFinally_KeepOnFailure(e) ==
  /\ localStorage' = IF e.resp.settled /\ Ok(e.resp)
                       THEN RemoveToken(localStorage, storageOk)
                       ELSE localStorage
  /\ Show(e, "/login", TRUE, {})
  /\ UNCHANGED <<storageOk, wrapPc>>

\* handleLogout's finally block: removeToken(), window.location.href = '/login'
LogoutFinally(e) ==
  /\ localStorage' = RemoveToken(localStorage, storageOk)
  /\ Show(e, "/login", TRUE, {})
  /\ UNCHANGED <<storageOk, wrapPc>>

\* handleLogout up to its await, or to its end when there is no token
HandleLogout ==
  /\ ProfileShown
  /\ Total(pending) < MaxInflight
  /\ IF storageOk /\ Truthy(getItem(localStorage, TOKEN_KEY))
       THEN /\ pending' = Add(pending, "logout")
            /\ ev' = [Event("handleLogout") EXCEPT
                        !.reqs = << Request(LOGOUT_URL, "POST",
                                            ProfileHeaders(localStorage)) >>]
            /\ UNCHANGED <<widgetVars, localStorage, storageOk, wrapPc, route, timers,
                           cbStatus, cbError, loginStatus, pageVars>>
       ELSE LogoutFinally(Event("handleLogout"))

\* the logout fetch settles, whatever its outcome
LogoutSettle ==
  \E k \in {"logout", Orphan("logout")}, r \in FetchOutcomes :
    /\ pending[k] > 0
    /\ LogoutFinally([Event(k) EXCEPT !.resp = r])

----------------------------------------------------------------------------
(* pages/ScheduleMaker.jsx *)

YOUTUBE_URL  == BASE \o "/schedules/generate-youtube"
GOALS_URL    == BASE \o "/learning/goals"
GENERATE_URL == BASE \o "/schedules/generate"

MakerHeaders == [ct |-> JSON_CT, auth |-> UNDEF]

\* generateSchedule up to the first await of generateYouTubeSchedule or
\* generateMLSchedule; youtube: the #youtube-url input is filled in
GenerateSchedule ==
  \E youtube \in BOOLEAN :
    /\ route = "/schedule"
    /\ ~smLoading
    /\ Total(pending) < MaxInflight
    /\ smLoading' = TRUE
    /\ pending' = Add(pending, IF youtube THEN "youtube" ELSE "goals")
    /\ ev' = [Event("generateSchedule") EXCEPT
                !.reqs = IF youtube
                           THEN << Request(YOUTUBE_URL, "POST", MakerHeaders) >>
                           ELSE << Request(GOALS_URL, "GET", NoHeaders) >>]
    /\ UNCHANGED <<widgetVars, localStorage, storageOk, wrapPc, route, timers, cbStatus,
                   cbError, loginStatus, profLoading, profError, profUser,
                   savedSchedules, schedule>>

\* generateYouTubeSchedule from its await on, and generateSchedule's finally
YouTubeSettle ==
  \E r \in DataOutcomes :
    LET mapped == Parsed(r) /\ r.body.isObj /\ r.body.data.present IN
    /\ pending["youtube"] > 0
    /\ pending' = Take(pending, "youtube")
    /\ schedule' = IF mapped THEN Data(r.body.data.ids, FALSE) ELSE schedule
    /\ smLoading' = FALSE
    /\ ev' = [Event("youtube") EXCEPT
                !.resp = r,
                !.oldSchedule = schedule,
                !.out = IF mapped /\ r.body.data.info THEN Returns(r.body)
                        ELSE Throws("Failed to generate schedule.")]
    /\ UNCHANGED <<widgetVars, localStorage, storageOk, wrapPc, route, timers, cbStatus,
                   cbError, loginStatus, profLoading, profError, profUser,
                   savedSchedules>>

\* generateMLSchedule from its first await to its second, or to its end
GoalsSettle ==
  \E r \in DataOutcomes :
    LET failed  == ~r.settled \/ ~r.body.parses
        goalIds == IF r.body.isObj /\ r.body.data.present
                     THEN r.body.data.ids ELSE << >>
        goOn    == ~failed /\ goalIds # << >>
    IN
    /\ pending["goals"] > 0
    /\ pending' = IF goOn THEN Add(Take(pending, "goals"), "generate")
                  ELSE Take(pending, "goals")
    /\ smLoading' = goOn
    /\ ev' = [Event("goals") EXCEPT
                !.resp = r,
                !.oldSchedule = schedule,
                !.reqs = IF goOn
                           THEN << Request(GENERATE_URL, "POST", MakerHeaders) >>
                           ELSE << >>,
                !.out = IF failed THEN Throws("Failed to generate schedule.")
                        ELSE NoOutcome]
    /\ UNCHANGED <<widgetVars, localStorage, storageOk, wrapPc, route, timers, cbStatus,
                   cbError, loginStatus, profLoading, profError, profUser,
                   savedSchedules, schedule>>

\* generateMLSchedule from its second await on, and generateSchedule's finally
GenerateSettle ==
  \E r \in DataOutcomes :
    /\ pending["generate"] > 0
    /\ pending' = Take(pending, "generate")
    /\ schedule' = IF Parsed(r)
                     THEN Data(IF r.body.isObj /\ r.body.data.present
                                 THEN r.body.data.ids ELSE << >>, FALSE)
                     ELSE schedule
    /\ smLoading' = FALSE
    /\ ev' = [Event("generate") EXCEPT
                !.resp = r,
                !.oldSchedule = schedule,
                !.out = IF Parsed(r) THEN Returns(r.body)
                        ELSE Throws("Failed to generate schedule.")]
    /\ UNCHANGED <<widgetVars, localStorage, storageOk, wrapPc, route, timers, cbStatus,
                   cbError, loginStatus, profLoading, profError, profUser,
                   savedSchedules>>

----------------------------------------------------------------------------
(* pages/ScheduleMaker.jsx: the learning-resources list *)

\* the list is grown up to this length
MaxResources == 3

\* texts typed into a resource field
ResourceTexts == {"", "a", "b"}

\* the variables the resource handlers leave alone
resourceFrame == <<localStorage, storageOk, wrapPc, route, timers, pending,
                   cbStatus, cbError, loginStatus, pageVars, books,
                   selectedFormat, position>>

\* resources.filter((_, i) => i !== index), i counting from `i`
RECURSIVE FilterIndex(_, _, _)
FilterIndex(rs, i, index) ==
  IF rs = << >> THEN << >>
  ELSE (IF i # index THEN << Head(rs) >> ELSE << >>)
         \o FilterIndex(Tail(rs), i + 1, index)

RemoveResourceResult_Unguarded(rs, index) == FilterIndex(rs, 0, index)

\* removeResource: the list it leaves
RemoveResourceResult(rs, index) ==
  IF Len(rs) > 1 THEN FilterIndex(rs, 0, index) ELSE rs

\* the "Add Resource" button
AddResource ==
  /\ PageOf(route) = "ScheduleMaker"
  /\ Len(resources) < MaxResources
  /\ resources' = resources \o << "" >>
  /\ ev' = [Event("addResource") EXCEPT !.old = resources]
  /\ UNCHANGED resourceFrame

\* typing into the field of entry `index` (indexes count from 0)
UpdateResource ==
  \E index \in 0..(Len(resources) - 1), value \in ResourceTexts :
    /\ PageOf(route) = "ScheduleMaker"
    /\ resources' = [resources EXCEPT ![index + 1] = value]
    /\ ev' = [Event("updateResource") EXCEPT
                !.old = resources, !.index = index, !.value = value]
    /\ UNCHANGED resourceFrame

\* removeResource(index).  Its button is rendered while there is more than
\* one entry; the handler checks the length itself as well.
RemoveResource ==
  \E index \in 0..(Len(resources) - 1) :
    /\ PageOf(route) = "ScheduleMaker"
    /\ resources' = RemoveResourceResult(resources, index)
    /\ ev' = [Event("removeResource") EXCEPT
                !.old = resources, !.index = index]
    /\ UNCHANGED resourceFrame

----------------------------------------------------------------------------
(* pages/BookRecommendations.jsx and components/BookCarousel.jsx *)

\* the variables the book page's handlers leave alone
bookFrame == <<localStorage, storageOk, wrapPc, route, timers, pending,
               cbStatus, cbError, loginStatus, pageVars, resources>>

\* the search texts tried, and for each the ids of the sampleBooks whose
\* title, author or format contains it (case-insensitively)
Queries == {"", "pdf", "pattern", "javascript", "quantum"}

Hits(q) ==
  CASE q = "pdf"        -> {1, 4, 7}
    [] q = "pattern"    -> {1, 4}
    [] q = "javascript" -> {2}
    [] OTHER            -> {}

\* handleSearch: the books state it sets
SearchResult(q) ==
  IF q = "" THEN ALL_BOOKS
  ELSE SelectSeq(ALL_BOOKS, LAMBDA id : id \in Hits(q))

Formats == {"all", "PDF", "eBook", "Physical"}

\* filteredBooks: what BookCarousel gets as `books`
FilteredBooks(bs, format) ==
  IF format = "all" THEN bs
  ELSE SelectSeq(bs, LAMBDA id : SampleBooks[id] = format)

\* Math.max(0, books.length - 3)
MaxPosition(n) == IF n - 3 > 0 THEN n - 3 ELSE 0

\* BookCarousel is rendered while filteredBooks is not empty; it keeps its
\* state while it stays rendered and starts at 0 when rendered anew
CarouselPosition(pos, shown) == IF shown = << >> THEN 0 ELSE pos

BooksShown == PageOf(route) = "BookRecommendations"

\* the browser loads /books, a route without <ProtectedRoute>
BooksLoad ==
  /\ Show(Event("load"), "/books", TRUE, {})
  /\ UNCHANGED <<localStorage, storageOk, wrapPc>>

CarouselShown == BooksShown /\ FilteredBooks(books, selectedFormat) # << >>

\* the Search button, or Enter in the search box
HandleSearch ==
  \E q \in Queries :
    /\ BooksShown
    /\ books' = SearchResult(q)
    /\ position' = CarouselPosition(position,
                                    FilteredBooks(books', selectedFormat))
    /\ ev' = [Event("handleSearch") EXCEPT !.value = q, !.old = books]
    /\ UNCHANGED <<bookFrame, selectedFormat>>

\* a format toggle
SetSelectedFormat ==
  \E f \in Formats :
    /\ BooksShown
    /\ selectedFormat' = f
    /\ position' = CarouselPosition(position, FilteredBooks(books, f))
    /\ ev' = [Event("setSelectedFormat") EXCEPT !.value = f, !.old = books]
    /\ UNCHANGED <<bookFrame, books>>

\* setPosition(prev => Math.min(prev + 1, maxPosition))
NextSlidePosition(prev, maxPosition) ==
  IF prev + 1 < maxPosition THEN prev + 1 ELSE maxPosition

\* setPosition(prev => Math.max(prev - 1, 0))
PrevSlidePosition(prev) == IF prev - 1 > 0 THEN prev - 1 ELSE 0

CarouselMax == MaxPosition(Len(FilteredBooks(books, selectedFormat)))

\* the right arrow, rendered while position < maxPosition
NextSlide ==
  /\ CarouselShown
  /\ position < CarouselMax
  /\ position' = NextSlidePosition(position, CarouselMax)
  /\ ev' = [Event("nextSlide") EXCEPT !.index = position]
  /\ UNCHANGED <<bookFrame, books, selectedFormat>>

\* the left arrow, rendered while position > 0
PrevSlide ==
  /\ CarouselShown
  /\ position > 0
  /\ position' = PrevSlidePosition(position)
  /\ ev' = [Event("prevSlide") EXCEPT !.index = position]
  /\ UNCHANGED <<bookFrame, books, selectedFormat>>

\* dragEndHandler: info.offset.x beyond the threshold of 50 slides
DragEndHandler ==
  \E x \in {-120, -20, 20, 120} :
    /\ CarouselShown
    /\ position' = IF x > 50 THEN PrevSlidePosition(position)
                   ELSE IF -x > 50 THEN NextSlidePosition(position, CarouselMax)
                   ELSE position
    /\ ev' = [Event("dragEnd") EXCEPT !.index = x]
    /\ UNCHANGED <<bookFrame, books, selectedFormat>>

\* a progress dot: rendered for 0..maxPosition while there are more than
\* three books
DotClick ==
  \E index \in 0..CarouselMax :
    /\ CarouselShown
    /\ Len(FilteredBooks(books, selectedFormat)) > 3
    /\ position' = index
    /\ ev' = [Event("dot") EXCEPT !.index = index]
    /\ UNCHANGED <<bookFrame, books, selectedFormat>>

----------------------------------------------------------------------------

Init ==
  /\ localStorage \in [Keys -> Tokens \cup {NULL}]
  /\ localStorage["theme"] = NULL
  /\ storageOk \in BOOLEAN
  /\ wrapPc = "idle"
  /\ route = "/"
  /\ timers = {}
  /\ pending = NonePending
  /\ cbStatus = CB_INITIAL
  /\ cbError = ""
  /\ loginStatus = ""
  /\ profLoading = TRUE
  /\ profError = ""
  /\ profUser = NO_USER
  /\ savedSchedules = << >>
  /\ smLoading = FALSE
  /\ schedule = NoData
  /\ resources = INITIAL_RESOURCES
  /\ books = ALL_BOOKS
  /\ selectedFormat = "all"
  /\ position = 0
  /\ ev = [NoEvent EXCEPT !.last = localStorage[TOKEN_KEY]]

\* the sign-in flows: router, OAuth callback, test login
Next ==
  \/ Navigate
  \/ TimerFires
  \/ PageLoad
  \/ CallbackLoad
  \/ CallbackSettle
  \/ HandleGoogleLogin
  \/ HandleTestLogin
  \/ TestLoginSettle

Spec == Init /\ [][Next]_vars

\* the pages behind the guard: Profile and ScheduleMaker
NextPages ==
  \/ Navigate
  \/ PageLoad
  \/ FetchUserProfile
  \/ FetchUserProfileSettle
  \/ FetchUserSchedulesSettle
  \/ UpdateUserProfile
  \/ UpdateUserProfileSettle
  \/ DeleteSchedule
  \/ DeleteScheduleSettle
  \/ LoadSettings
  \/ SaveSettings
  \/ SettingsSettle
  \/ HandleLogout
  \/ LogoutSettle
  \/ GenerateSchedule
  \/ YouTubeSettle
  \/ GoalsSettle
  \/ GenerateSettle

SpecPages == Init /\ [][NextPages]_vars

\* the exports of utils/auth.js under arbitrary callers
NextAuth ==
  \/ SetTokenCall
  \/ GetTokenCall
  \/ RemoveTokenCall
  \/ IsAuthenticatedCall
  \/ ApiRequestCall
  \/ AuthenticatedRequestCall
  \/ WrapperSettle

SpecAuth == Init /\ [][NextAuth]_vars

\* the resources list of the schedule maker
NextResources ==
  \/ PageLoad
  \/ AddResource
  \/ UpdateResource
  \/ RemoveResource

SpecResources == Init /\ [][NextResources]_vars

\* the book page: search, format filter and carousel
NextBooks ==
  \/ BooksLoad
  \/ HandleSearch
  \/ SetSelectedFormat
  \/ NextSlide
  \/ PrevSlide
  \/ DragEndHandler
  \/ DotClick

SpecBooks == Init /\ [][NextBooks]_vars

\* the flows that write the token store, running side by side: test logins
\* started on /login, and the logout of Profile
NextWriters ==
  \/ Navigate
  \/ TimerFires
  \/ PageLoad
  \/ HandleTestLogin
  \/ TestLoginSettle
  \/ FetchUserProfileSettle
  \/ FetchUserSchedulesSettle
  \/ HandleLogout
  \/ LogoutSettle

SpecWriters == Init /\ [][NextWriters]_vars

\* the callers of fetch that the no-retry rule is about: authenticatedRequest
\* and the OAuth callback
NextAttempts ==
  \/ AuthenticatedRequestCall
  \/ WrapperSettle
  \/ Navigate
  \/ CallbackLoad
  \/ CallbackSettle

SpecAttempts == Init /\ [][NextAttempts]_vars

----------------------------------------------------------------------------
(* Claims *)

\* the token stored when the last step began, as getToken() would return it
TokenBefore == GetToken(ev.before, storageOk)

StoredToken == localStorage[TOKEN_KEY]

\* C1: after setToken(T) with a non-empty T, from any prior content of the
\* store, getToken() returns T and isAuthenticated() returns true (storage
\* access working; a throwing storage swallows the write).
C1_SetThenGet ==
  (ev.op = "setToken" /\ Truthy(ev.token) /\ storageOk)
    => /\ GetToken(localStorage, storageOk) = ev.token
       /\ IsAuthenticated(localStorage, storageOk)

C1_Witness ==
  /\ ev.op = "setToken" /\ ev.token = "tokB" /\ storageOk
  /\ ev.before[TOKEN_KEY] = "tokA"
  /\ GetToken(localStorage, storageOk) = "tokB"

\* C2: after removeToken(), from any prior state, getToken() returns absent
\* and isAuthenticated() returns false; removeToken() completes without an
\* error also when nothing is stored, and a further removeToken() leaves the
\* store as it is.
C2_RemoveThenGet ==
  ev.op = "removeToken"
    => /\ GetToken(localStorage, storageOk) = NULL
       /\ ~IsAuthenticated(localStorage, storageOk)
       /\ ev.out.kind # "throw"
       /\ storageOk => StoredToken = NULL
       /\ RemoveToken(localStorage, storageOk) = localStorage

C2_Witness ==
  /\ ev.op = "removeToken" /\ storageOk
  /\ ev.before[TOKEN_KEY] = "tokA"
  /\ GetToken(localStorage, storageOk) = NULL

\* C3: authenticatedRequest called while no token is stored throws
\* 'Not authenticated', hands no request to fetch and leaves no fetch pending.
C3_NotAuthenticated ==
  (ev.op = "authenticatedRequest" /\ ~Truthy(TokenBefore))
    => /\ ev.out = Throws("Not authenticated")
       /\ ev.reqs = << >>
       /\ wrapPc = "idle"

C3_Witness ==
  /\ ev.op = "authenticatedRequest" /\ storageOk
  /\ ev.before[TOKEN_KEY] = NULL
  /\ ev.out.kind = "throw" /\ ev.reqs = << >>

\* C4: with a token T stored, every request apiRequest or
\* authenticatedRequest hands to fetch carries Authorization: Bearer T,
\* whatever headers the caller's options hold.
C4_BearerHeader ==
  (ev.op \in {"apiRequest", "authenticatedRequest"} /\ Truthy(TokenBefore))
    => /\ Len(ev.reqs) = 1
       /\ ev.reqs[1].auth = "Bearer " \o TokenBefore

C4_Witness ==
  /\ ev.op = "authenticatedRequest"
  /\ ev.opts.headers.auth = "Bearer other"
  /\ ev.before[TOKEN_KEY] = "tokA"
  /\ Len(ev.reqs) = 1 /\ ev.reqs[1].auth = "Bearer tokA"

\* C5: handleApiResponse on a non-success status never returns a payload: it
\* throws the server's message when the body parses and carries one, and
\* 'Network error' when the body does not parse; on a success status it
\* returns the parsed JSON payload.
C5_HandleApiResponse ==
  (ev.op = "authenticatedRequest:settled" /\ ev.resp.settled)
    => LET body == ev.resp.body IN
       IF ev.resp.status \in 200..299
         THEN body.parses => ev.out = Returns(body)
         ELSE /\ ev.out.kind = "throw"
              /\ (body.parses /\ body.isObj /\ body.message \notin {UNDEF, ""})
                   => ev.out.msg = body.message
              /\ ~body.parses => ev.out.msg = "Network error"

C5_Witness ==
  /\ ev.op = "authenticatedRequest:settled"
  /\ ev.resp.settled /\ ev.resp.status = 401
  /\ ev.resp.body.message = "bad request"
  /\ ev.out = Throws("bad request")

\* C6 as stated: when the callback route is loaded with an error parameter
\* in the query, with or without a code, no exchange request is issued, no
\* token is written, an error is shown and a navigation to /login is
\* scheduled after 3000 ms.
C6_AnyErrorParam ==
  (ev.op = "callback" /\ ev.error # NULL)
    => /\ ev.reqs = << >>
       /\ pending["exchange"] = 0
       /\ localStorage = ev.before
       /\ cbStatus = "Sign-in failed"
       /\ cbError # ""
       /\ timers = {[to |-> "/login", delay |-> 3000, by |-> "callback"]}

\* C6 amended: the same, for an error parameter with a non-empty value; the
\* error shown is the one of the query.
C6_NonEmptyErrorParam ==
  (ev.op = "callback" /\ ev.error \notin {NULL, ""})
    => /\ ev.reqs = << >>
       /\ pending["exchange"] = 0
       /\ localStorage = ev.before
       /\ cbStatus = "Sign-in failed"
       /\ cbError = "OAuth error: " \o ev.error
       /\ timers = {[to |-> "/login", delay |-> 3000, by |-> "callback"]}

C6_Witness ==
  /\ ev.op = "callback" /\ ev.error = "access_denied" /\ ev.code = "XYZ"
  /\ ev.reqs = << >>
  /\ cbError = "OAuth error: access_denied"
  /\ \E t \in timers : t.to = "/login"

\* a response that is a success envelope carrying a non-empty access token
SuccessEnvelope(r) ==
  /\ r.settled /\ r.status \in 200..299
  /\ r.body.parses /\ r.body.isObj
  /\ r.body.status = "success" /\ r.body.token \notin {UNDEF, NULL, ""}

\* C7: when the exchange of a callback flow returns a success envelope
\* carrying access_token A, the token store holds A (storage access
\* working), a navigation to /profile is scheduled after 1500 ms and none to
\* /login.
C7_CallbackSuccess ==
  (ev.op \in {"exchange", "exchange.orphan"} /\ SuccessEnvelope(ev.resp))
    => /\ storageOk => StoredToken = ev.resp.body.token
       /\ [to |-> "/profile", delay |-> 1500, by |-> "callback"] \in timers
       /\ \A t \in timers : t.by = "callback" => t.to # "/login"

C7_Witness ==
  /\ ev.op = "exchange" /\ SuccessEnvelope(ev.resp)
  /\ ev.before[TOKEN_KEY] = "tokB" /\ StoredToken = "tokA"
  /\ [to |-> "/profile", delay |-> 1500, by |-> "callback"] \in timers

\* a non-empty token is stored and readable when the last step began
HadToken == storageOk /\ ev.before[TOKEN_KEY] \notin {NULL, ""}

C9_FailureStatusNeverStores ==
  (/\ ev.op \in {"exchange", "exchange.orphan", "testLogin", "testLogin.orphan"}
   /\ ev.resp.settled /\ ev.resp.status \notin 200..299)
    => localStorage = ev.before

\* the endpoints that need the bearer token
ProtectedUrls ==
  { BASE \o "/users/profile", BASE \o "/users/preferences",
    BASE \o "/schedules/", BASE \o "/schedules/1", BASE \o "/schedules/2",
    BASE \o "/schedules/generate-youtube", BASE \o "/schedules/generate" }

\* C10: every request to a protected endpoint is issued only while a token
\* is stored and carries Authorization: Bearer <stored token>.
C10_ProtectedRequestsCarryToken ==
  \A i \in 1..Len(ev.reqs) :
    ev.reqs[i].url \in ProtectedUrls
      => /\ HadToken
         /\ ev.reqs[i].auth = "Bearer " \o ev.before[TOKEN_KEY]

\* C13: when every access to localStorage throws, setToken, getToken,
\* removeToken and isAuthenticated complete without throwing, getToken
\* returns null and isAuthenticated returns false.
C13_StorageFailureSwallowed ==
  (ev.op \in {"setToken", "getToken", "removeToken", "isAuthenticated"}
     /\ ~storageOk)
    => /\ ev.out.kind # "throw"
       /\ ev.op = "getToken" => ev.ret = NULL
       /\ ev.op = "isAuthenticated" => ev.ret = "false"
       /\ GetToken(localStorage, storageOk) = NULL
       /\ ~IsAuthenticated(localStorage, storageOk)

C13_Witness ==
  /\ ~storageOk /\ ev.op = "isAuthenticated"
  /\ localStorage[TOKEN_KEY] = "tokA"
  /\ ev.ret = "false" /\ ev.out.kind = "none"

\* C14: after any sequence of setToken and removeToken calls (storage access
\* working) the store holds under TOKEN_KEY exactly the argument of the
\* latest setToken with a non-empty argument since the latest removeToken,
\* nothing if there is none, and no other key has been written.
C14_SingleToken ==
  (storageOk /\ ev.last # UNDEF)
    => /\ localStorage[TOKEN_KEY] = ev.last
       /\ \A k \in Keys \ {TOKEN_KEY} : localStorage[k] = NULL

C14_Witness ==
  /\ storageOk /\ ev.op = "setToken" /\ ev.token = "tokB"
  /\ ev.before[TOKEN_KEY] = "tokA"
  /\ ev.last = "tokB" /\ localStorage[TOKEN_KEY] = "tokB"

\* C15: isAuthenticated() returns true exactly when a non-empty token is
\* stored (and readable), whatever that token is; it hands no request to
\* fetch and leaves the token store as it was.
C15_IsAuthenticatedPure ==
  ev.op = "isAuthenticated"
    => /\ ev.ret = (IF storageOk /\ ev.before[TOKEN_KEY] \notin {NULL, ""}
                      THEN "true" ELSE "false")
       /\ ev.reqs = << >>
       /\ localStorage = ev.before

C15_Witness ==
  /\ ev.op = "isAuthenticated" /\ storageOk
  /\ ev.before[TOKEN_KEY] = "tokA" /\ ev.ret = "true"
  /\ localStorage[TOKEN_KEY] = "tokA"

\* C20: setToken called with an empty or null token writes nothing: the
\* store is exactly as before, a token stored earlier stays, and
\* isAuthenticated() is what it was.
C20_EmptySetTokenNoWrite ==
  (ev.op = "setToken" /\ ev.token \in {"", NULL})
    => /\ localStorage = ev.before
       /\ IsAuthenticated(localStorage, storageOk)
            = IsAuthenticated(ev.before, storageOk)

C20_Witness ==
  /\ ev.op = "setToken" /\ ev.token = "" /\ storageOk
  /\ ev.before[TOKEN_KEY] = "tokA" /\ localStorage[TOKEN_KEY] = "tokA"

CallbackTimers == {t \in timers : t.by = "callback"}

ToProfile == [to |-> "/profile", delay |-> 1500, by |-> "callback"]

ToLogin == [to |-> "/login", delay |-> 3000, by |-> "callback"]

\* C12: a callback flow hands the exchange request to fetch only when the
\* query holds no error value and holds a code, and it schedules the
\* navigation to /profile only in the step that has stored the received
\* token, so that isAuthenticated() is true at that moment (storage access
\* working).
C12_ValidateStoreNavigate ==
  /\ (ev.op = "callback" /\ ev.reqs # << >>)
       => /\ ev.error \in {NULL, ""}
          /\ ev.code \notin {NULL, ""}
          /\ Len(ev.reqs) = 1
          /\ ev.reqs[1].url = BASE \o "/auth/google/callback?code=" \o ev.code
  /\ (ToProfile \in timers /\ storageOk)
       => IsAuthenticated(localStorage, storageOk)
  /\ (ev.op \in {"exchange", "exchange.orphan"} /\ ToProfile \in timers
        /\ storageOk)
       => /\ StoredToken \notin {NULL, ""}
          /\ StoredToken = ev.resp.body.token
  /\ (ev.op \in {"exchange", "exchange.orphan"} /\ ev.out.kind = "throw")
       => ToProfile \notin timers

C12_Witness ==
  /\ ev.op = "exchange" /\ storageOk
  /\ ev.before[TOKEN_KEY] = NULL
  /\ ToProfile \in timers
  /\ StoredToken = "tokA" /\ IsAuthenticated(localStorage, storageOk)

\* C16: a callback load with neither an error nor a code in the query fails
\* with 'No authorization code received': no exchange request, no token
\* written, and a navigation to /login scheduled.
C16_NoCodeNoError ==
  (ev.op = "callback" /\ ev.error = NULL /\ ev.code = NULL)
    => /\ ev.out = Throws("No authorization code received")
       /\ cbError = "No authorization code received"
       /\ cbStatus = "Sign-in failed"
       /\ ev.reqs = << >>
       /\ pending["exchange"] = 0 /\ pending["exchange.orphan"] = 0
       /\ localStorage = ev.before
       /\ timers = {ToLogin}

C16_Witness ==
  /\ ev.op = "callback" /\ ev.error = NULL /\ ev.code = NULL
  /\ cbError = "No authorization code received"
  /\ ToLogin \in timers /\ pending["exchange"] = 0

\* C17: a callback flow that ended (its parameters rejected, or its exchange
\* settled) is in exactly one terminal state: status successful with the
\* navigation to /profile scheduled, or status failed with the navigation to
\* /login scheduled; while its exchange is in flight the status is the
\* processing one and no navigation is scheduled.
C17_CallbackTerminal ==
  /\ Cardinality(CallbackTimers) <= 1
  /\ (ev.op = "callback" /\ ev.reqs = << >>)
       => cbStatus = "Sign-in failed" /\ CallbackTimers = {ToLogin}
  /\ ev.op = "exchange"
       => \/ cbStatus = "Sign-in successful! Redirecting..."
               /\ CallbackTimers = {ToProfile}
          \/ cbStatus = "Sign-in failed" /\ CallbackTimers = {ToLogin}
  /\ ev.op = "exchange.orphan"
       => CallbackTimers = {IF ev.out.kind = "return" THEN ToProfile ELSE ToLogin}
  /\ pending["exchange"] > 0
       => cbStatus = "Completing sign-in..." /\ CallbackTimers = {}
  /\ pending["exchange.orphan"] > 0 => CallbackTimers = {}

C17_Witness ==
  /\ ev.op = "exchange" /\ ev.resp.settled /\ ev.resp.status = 500
  /\ cbStatus = "Sign-in failed" /\ CallbackTimers = {ToLogin}

\* C18: with flows that write the token store in flight side by side (two
\* test logins, a test login and a logout), in every reachable state the
\* store holds nothing or one complete token a flow received; the store
\* changes only in the step of a flow that writes it, and after that step
\* holds what this step wrote, whatever was written before.
C18_AtomicWrites ==
  /\ localStorage[TOKEN_KEY] \in {NULL, "tokA", "tokB"}
  /\ (storageOk /\ ev.op \in {"testLogin", "testLogin.orphan"}
        /\ ev.out.kind = "return")
       => StoredToken = ev.resp.body.token
  /\ (storageOk /\ ev.op \in {"logout", "logout.orphan"})
       => StoredToken = NULL
  /\ (\/ ev.op \in {"testLogin", "testLogin.orphan"} /\ ev.out.kind = "throw"
      \/ ev.op \in {"navigate", "timer", "load", "handleTestLogin", "profile",
                     "schedules"}
      \/ ev.op = "handleLogout" /\ ev.reqs # << >>)
       => localStorage = ev.before

\* a test login stores tokB over tokA while a second test login is in flight
C18_Witness ==
  /\ storageOk /\ ev.op = "testLogin" /\ ev.out.kind = "return"
  /\ pending["testLogin"] = 1
  /\ ev.before[TOKEN_KEY] = "tokA" /\ StoredToken = "tokB"

\* C19: authenticatedRequest with a token stored hands exactly one request
\* to fetch and none when that request has settled, whatever its outcome; an
\* OAuth callback flow hands at most one exchange request to fetch and none
\* when it has settled.
C19_SingleAttempt ==
  /\ (ev.op = "authenticatedRequest" /\ Truthy(TokenBefore))
       => Len(ev.reqs) = 1 /\ wrapPc = "authenticatedRequest"
  /\ ev.op = "authenticatedRequest:settled"
       => ev.reqs = << >> /\ wrapPc = "idle"
  /\ ev.op = "callback" => Len(ev.reqs) <= 1
  /\ pending["exchange"] + pending["exchange.orphan"] <= 1
  /\ ev.op \in {"exchange", "exchange.orphan"}
       => /\ ev.reqs = << >>
          /\ pending["exchange"] + pending["exchange.orphan"] = 0

C19_Witness ==
  /\ ev.op = "authenticatedRequest:settled"
  /\ ev.resp.settled /\ ev.resp.status = 500
  /\ ev.out.kind = "throw" /\ ev.reqs = << >> /\ wrapPc = "idle"

\* C21: handleGoogleLogin hands no request to fetch and leaves the token
\* store as it was; its only effect is that the browser is at the backend's
\* /auth/google/login, with nothing of the client's state kept: no fetch in
\* flight, no timer, no status.
C21_GoogleLoginNavigatesAway ==
  ev.op = "handleGoogleLogin"
    => /\ ev.reqs = << >>
       /\ localStorage = ev.before
       /\ route = "http://localhost:8000/api/v1/auth/google/login"
       /\ \A k \in Kinds : pending[k] = 0
       /\ timers = {}
       /\ loginStatus = "" /\ cbStatus = "Processing..." /\ cbError = ""

C21_Witness ==
  /\ ev.op = "handleGoogleLogin"
  /\ ev.before[TOKEN_KEY] = "tokA" /\ StoredToken = "tokA"
  /\ route = "http://localhost:8000/api/v1/auth/google/login"
  /\ ev.reqs = << >>

\* C22: when the exchange is answered with a success HTTP status but the
\* payload is not a success envelope with a non-empty access_token, the
\* callback flow ends failed: the store is as before, the error is shown
\* ('No access token received from server' when the payload is an object)
\* and the navigation to /login is scheduled, none to /profile.
C22_BadEnvelopeFails ==
  (/\ ev.op \in {"exchange", "exchange.orphan"}
   /\ ev.resp.settled /\ ev.resp.status \in 200..299
   /\ ~SuccessEnvelope(ev.resp))
    => /\ localStorage = ev.before
       /\ ev.out.kind = "throw"
       /\ (ev.resp.body.parses /\ ev.resp.body.isObj)
            => ev.out.msg = "No access token received from server"
       /\ CallbackTimers = {ToLogin}
       /\ ev.op = "exchange"
            => /\ cbStatus = "Sign-in failed"
               /\ cbError = ev.out.msg /\ cbError # ""

C22_Witness ==
  /\ ev.op = "exchange" /\ ev.resp.settled /\ ev.resp.status = 200
  /\ ev.resp.body.status = "success" /\ ev.resp.body.token = ""
  /\ cbError = "No access token received from server"
  /\ CallbackTimers = {ToLogin} /\ localStorage = ev.before

\* a payload that is a success envelope carrying a non-empty access token
EnvelopeOk(r) ==
  /\ r.settled /\ r.body.parses /\ r.body.isObj
  /\ r.body.status = "success" /\ r.body.token \notin {UNDEF, NULL, ""}

\* C23: a test login stores the token and schedules the navigation to
\* /profile exactly when the answer is a success envelope carrying a
\* non-empty access_token; on every other outcome (error envelope, network
\* failure, unparseable body) the store is as before, the step schedules no
\* navigation and a 'Test login failed' status is shown.
C23_TestLogin ==
  ev.op \in {"testLogin", "testLogin.orphan"}
    => IF EnvelopeOk(ev.resp)
         THEN /\ storageOk => StoredToken = ev.resp.body.token
              /\ ev.sched = {[to |-> "/profile", delay |-> 1500, by |-> "login"]}
              /\ ev.sched \subseteq timers
              /\ ev.op = "testLogin"
                   => loginStatus = "Test login successful! Redirecting..."
         ELSE /\ localStorage = ev.before
              /\ ev.sched = {}
              /\ ev.out.kind = "throw"
              /\ ev.op = "testLogin"
                   => loginStatus = "Test login failed: " \o ev.out.msg

C23_Witness ==
  /\ ev.op = "testLogin" /\ ~ev.resp.settled
  /\ ev.before[TOKEN_KEY] = "tokA" /\ StoredToken = "tokA"
  /\ timers = {}
  /\ loginStatus = "Test login failed: Failed to fetch"

\* C24: a stored token is removed by logout only, and no failed callback,
\* failed test login or answer with a non-success HTTP status from any
\* endpoint (a 401 on /users/profile included) removes or changes it:
\* isAuthenticated() is still true after a server rejection.
C24_OnlyLogoutRemoves ==
  /\ (HadToken /\ StoredToken = NULL)
       => ev.op \in {"logout", "logout.orphan", "handleLogout"}
  /\ (ev.op \in {"exchange", "exchange.orphan", "testLogin", "testLogin.orphan"}
        /\ ev.out.kind = "throw")
       => localStorage = ev.before
  /\ (HadToken /\ ev.resp.settled /\ ev.resp.status \notin 200..299
        /\ ev.op \notin {"logout", "logout.orphan"})
       => /\ localStorage = ev.before
          /\ IsAuthenticated(localStorage, storageOk)

\* C25: handleApiResponse on a non-success response whose body parses as
\* JSON but carries no message, or an empty one, throws 'HTTP <status>'.
C25_HttpStatusMessage ==
  (/\ ev.op = "authenticatedRequest:settled"
   /\ ev.resp.settled /\ ev.resp.status \notin 200..299
   /\ ev.resp.body.parses /\ ev.resp.body.message \in {UNDEF, ""})
    => /\ ev.out.kind = "throw"
       /\ ev.out.msg = (IF ev.resp.status = 401 THEN "HTTP 401" ELSE "HTTP 500")

\* C26: BookCarousel keeps 0 <= position <= maxPosition, with maxPosition =
\* max(0, books.length - 3) for the books list it is given, in every
\* reachable state: under nextSlide, prevSlide, drag ends, dot clicks and
\* changes of the list by a search or a format filter.
C26_PositionInRange ==
  LET shown == IF selectedFormat = "all" THEN books
               ELSE SelectSeq(books, LAMBDA id : SampleBooks[id] = selectedFormat)
      maxPosition == IF Len(shown) > 3 THEN Len(shown) - 3 ELSE 0
  IN  0 <= position /\ position <= maxPosition

\* C27: ScheduleMaker's resources list always has at least one entry;
\* removeResource on a single-entry list changes nothing, and otherwise
\* removes exactly the entry at the given index, the others keeping their
\* order; addResource appends one empty entry and updateResource replaces
\* one entry in place.
C27_ResourcesNeverEmpty ==
  LET old == ev.old
      n   == Len(old)
      i   == ev.index
  IN
  /\ Len(resources) >= 1
  /\ (ev.op = "removeResource" /\ n = 1) => resources = old
  /\ (ev.op = "removeResource" /\ n > 1)
       => resources = SubSeq(old, 1, i) \o SubSeq(old, i + 2, n)
  /\ ev.op = "addResource" => resources = Append(old, "")
  /\ ev.op = "updateResource"
       => /\ Len(resources) = n
          /\ \A j \in 1..n :
               resources[j] = IF j = i + 1 THEN ev.value ELSE old[j]

\* a middle entry was removed from three distinct ones, or a removal was
\* asked of a single-entry list
C27_Witness ==
  /\ ev.op = "removeResource"
  /\ \/ ev.old = << "a", "", "b" >> /\ ev.index = 1
           /\ resources = << "a", "b" >>
     \/ ev.old = << "b" >> /\ resources = << "b" >>

\* C28: generateSchedule clears the loading flag once it settles, on every
\* path: YouTube or ML generation succeeding, failing with an HTTP or
\* network error, or returning early for want of learning goals; and on a
\* failing path the schedule displayed before is left unchanged.
C28_LoadingClearedScheduleKept ==
  LET settled == \/ ev.op \in {"youtube", "generate"}
                 \/ ev.op = "goals" /\ ev.reqs = << >>
  IN
  /\ settled => ~smLoading
  /\ (settled /\ ev.out.kind = "throw") => schedule = ev.oldSchedule

\* C29: Profile.deleteSchedule removes a schedule from the displayed list
\* only after the DELETE was answered with a success status, and then
\* removes exactly the schedules with that id; on a non-success status or a
\* network failure the displayed list is unchanged.
C29_DeleteAfterSuccessOnly ==
  \A id \in {1, 2} :
    ev.op = "delete:" \o IdText(id)
      => IF ev.resp.settled /\ ev.resp.status \in 200..299
           THEN savedSchedules = SelectSeq(ev.old, LAMBDA x : x # id)
           ELSE savedSchedules = ev.old

\* schedule 1 was deleted from the list of 1 and 2 after a 200
C29_Witness ==
  /\ ev.op = "delete:1"
  /\ ev.resp.settled /\ ev.resp.status = 200
  /\ ev.old = << 1, 2 >>
  /\ savedSchedules = << 2 >>

====
